---- MODULE Spec2Model ----
(***************************************************************************)
(* A model of scripts/generate_profile_stats.py: one run of main, from the *)
(* profile request to the two file writes, with the remote API as the      *)
(* environment.                                                            *)
(***************************************************************************)
EXTENDS Integers, Sequences, FiniteSets, TLC

VARIABLES
    remote_repos,     \* the owner's repository list held by the remote API
    remote_per_page,  \* how many elements the remote puts on one page
    pc,               \* where main is
    user,             \* main: user
    page,             \* iter_owned_repos: page
    payload,          \* iter_owned_repos: payload (the current page)
    idx,              \* iter_owned_repos: position of `for repo in payload`
    repo_count,       \* main: repo_count
    total_stars,      \* main: total_stars
    language_totals,  \* main: language_totals, in insertion order
    stats_svg,        \* main: stats_svg (the values its rows show)
    top,              \* render_top_langs_svg: top
    langs_svg,        \* main: langs_svg (the rows it shows)
    files,            \* the output files written so far
    exc,              \* the exception that ended the run, if any
    exit_code,        \* the status of SystemExit
    in_flight,        \* requests sent and not yet answered
    n_requests,       \* api_get calls made so far
    page_log,         \* the page numbers requested, in order
    yielded,          \* indices (in remote_repos) of the repos yielded
    lang_log,         \* indices of the repos whose languages were requested
    pos               \* number of elements of remote_repos consumed

vars == <<remote_repos, remote_per_page, pc, user, page, payload, idx,
          repo_count, total_stars, language_totals, stats_svg, top,
          langs_svg, files, exc, exit_code, in_flight, n_requests, page_log, yielded,
          lang_log, pos>>

(***************************************************************************)
(* Bounds of the model and constants of the program.                       *)
(***************************************************************************)
MaxRepos == 2
MaxLangs == 7
PerPage == 100
TopN == 6
BarMax == 280
BarMin == 2
MantissaBits == 53

(***************************************************************************)
(* JSON values, as far as the program looks at them: a tag and a number    *)
(* (an integer's value, a boolean's 0/1, a string's length).               *)
(***************************************************************************)
Absent == [t |-> "absent", v |-> 0]
Null == [t |-> "null", v |-> 0]
BoolV(b) == [t |-> "bool", v |-> IF b THEN 1 ELSE 0]
IntV(n) == [t |-> "int", v |-> n]
StrV(n) == [t |-> "str", v |-> n]

\* Python truthiness of dict.get(key): an absent key gives None.
Truthy(j) ==
    CASE j.t = "absent" -> FALSE
      [] j.t = "null" -> FALSE
      [] j.t = "bool" -> j.v = 1
      [] j.t = "int" -> j.v # 0
      [] j.t = "str" -> j.v > 0

\* isinstance(x, int): bool is a subclass of int in Python.
IsInstanceInt(j) == j.t \in {"int", "bool"}

\* isinstance(x, str) and x
IsNonEmptyStr(j) == j.t = "str" /\ j.v > 0

\* a faulty star count: an absent stargazers_count counts as 1
StarsOfDefaultOne(repo) ==
    IF repo.stars.t = "absent" THEN 1
    ELSE IF Truthy(repo.stars) THEN repo.stars.v ELSE 0

\* int(repo.get("stargazers_count", 0) or 0)
StarsOf(repo) == IF Truthy(repo.stars) THEN repo.stars.v ELSE 0

Min(a, b) == IF a < b THEN a ELSE b
Max(a, b) == IF a > b THEN a ELSE b

(***************************************************************************)
(* language_totals: a dict in insertion order, as a sequence of            *)
(* <<name, size>>.                                                         *)
(***************************************************************************)
HasKey(totals, name) == \E i \in 1..Len(totals) : totals[i][1] = name

KeyIndex(totals, name) == CHOOSE i \in 1..Len(totals) : totals[i][1] = name

\* defaultdict(int)[name]
Lookup(totals, name) ==
    IF HasKey(totals, name) THEN totals[KeyIndex(totals, name)][2] ELSE 0

\* language_totals[name] += size
AddLang(totals, name, size) ==
    IF HasKey(totals, name)
    THEN [totals EXCEPT ![KeyIndex(totals, name)] = <<name, @[2] + size>>]
    ELSE Append(totals, <<name, size>>)

RECURSIVE AddEntries(_, _)
AddEntries(totals, entries) ==
    IF entries = <<>> THEN totals
    ELSE LET e == Head(entries)
         IN  AddEntries(IF IsInstanceInt(e[2])
                        THEN AddLang(totals, e[1], e[2].v)
                        ELSE totals,
                        Tail(entries))

\* a faulty accumulation: a non-object payload empties the totals
AccumulateOrReset(totals, resp) ==
    IF resp.isobj THEN AddEntries(totals, resp.entries) ELSE <<>>

\* main, lines 207-210: a non-object payload contributes nothing.
Accumulate(totals, resp) ==
    IF resp.isobj THEN AddEntries(totals, resp.entries) ELSE totals

(***************************************************************************)
(* Python floats are IEEE-754 doubles: a 53-bit significand, rounded to    *)
(* nearest, ties to even.  A positive double is <<m, e>>: m the            *)
(* significand, its leading bit followed by 52 bits in four limbs of 13    *)
(* bits, and e the exponent of the leading bit (the value is               *)
(* m * 2^(e - 52)).                                                        *)
(***************************************************************************)
LimbBase == 2^13

NLimbs == (MantissaBits - 1) \div 13

RECURSIVE ScaleUp(_, _, _)
\* a doubled until a >= b; the count of doublings
ScaleUp(a, b, n) == IF a >= b THEN <<a, n>> ELSE ScaleUp(2 * a, b, n + 1)

RECURSIVE ScaleDown(_, _, _)
\* b doubled until a < 2b; the count of doublings
ScaleDown(a, b, n) == IF a < 2 * b THEN <<b, n>> ELSE ScaleDown(a, 2 * b, n + 1)

RECURSIVE DivLimbs(_, _, _)
\* the next n limbs of r / b (r < b), and the remainder left after them
DivLimbs(r, b, n) ==
    IF n = 0 THEN <<<<>>, r>>
    ELSE LET t == r * LimbBase
             rest == DivLimbs(t % b, b, n - 1)
         IN  <<<<t \div b>> \o rest[1], rest[2]>>

RECURSIVE IncLimbs(_, _)
\* m + 1 in the last place, carrying
IncLimbs(m, i) ==
    IF m[i] = LimbBase - 1 THEN IncLimbs([m EXCEPT ![i] = 0], i - 1)
    ELSE [m EXCEPT ![i] = @ + 1]

\* the significand rounded up by one unit in the last place
RoundUp(m, e) ==
    IF \A i \in 2..Len(m) : m[i] = LimbBase - 1
    THEN <<[i \in 1..Len(m) |-> IF i = 1 THEN 1 ELSE 0], e + 1>>
    ELSE <<IncLimbs(m, Len(m)), e>>

\* a / b for integers a, b > 0, correctly rounded (float.__truediv__)
FloatDiv(a, b) ==
    LET up == ScaleUp(a, b, 0)
        dn == ScaleDown(up[1], b, 0)
        a1 == up[1]
        b1 == dn[1]
        e == dn[2] - up[2]
        q == DivLimbs(a1 - b1, b1, NLimbs)
        m == <<1>> \o q[1]
        r == q[2]
        roundUp == (2 * r > b1) \/ (2 * r = b1 /\ m[Len(m)] % 2 = 1)
    IN  IF roundUp THEN RoundUp(m, e) ELSE <<m, e>>

RECURSIVE MulLimbs(_, _, _, _, _)
\* m * k, exactly, from the last limb to the first: the first limb of the
\* product is as large as it gets, the others are below LimbBase
MulLimbs(m, k, i, c, acc) ==
    LET t == m[i] * k + c
    IN  IF i = 1 THEN <<t>> \o acc
        ELSE MulLimbs(m, k, i - 1, t \div LimbBase, <<t % LimbBase>> \o acc)

RECURSIVE BitLength(_)
BitLength(n) == IF n = 0 THEN 0 ELSE 1 + BitLength(n \div 2)

\* x * k for a double x > 0 and an integer 0 < k < LimbBase (float.__mul__):
\* the exact product, shifted right by s bits to 53 bits and rounded
FloatMulInt(x, k) ==
    LET prod == MulLimbs(x[1], k, Len(x[1]), 0, <<>>)
        s == BitLength(prod[1]) - 1
        unit == 2^s
        m == [i \in 1..Len(prod) |->
                 IF i = 1 THEN 1
                 ELSE (prod[i - 1] % unit) * (LimbBase \div unit) + prod[i] \div unit]
        dropped == prod[Len(prod)] % unit
        roundUp == \/ 2 * dropped > unit
                   \/ 2 * dropped = unit /\ m[Len(m)] % 2 = 1
    IN  IF roundUp THEN RoundUp(m, x[2] + s) ELSE <<m, x[2] + s>>

\* int(x) for a double 0 < x < LimbBase: the integer part
FloatToInt(x) ==
    IF x[2] < 0 THEN 0
    ELSE (x[1][1] * LimbBase + x[1][2]) \div (LimbBase \div 2^(x[2]))

\* int((size / total) * 280), for size >= 0 and total > 0
ScaledWidth(size, total) ==
    IF size = 0 THEN 0 ELSE FloatToInt(FloatMulInt(FloatDiv(size, total), BarMax))

\* render_top_langs_svg, line 154
BarWidth(size, total) == Max(BarMin, ScaledWidth(size, total))

(***************************************************************************)
(* render_top_langs_svg, lines 124-125.                                    *)
(***************************************************************************)
RECURSIVE SumSizes(_)
\* sum(lang_bytes.values())
SumSizes(totals) ==
    IF totals = <<>> THEN 0 ELSE Head(totals)[2] + SumSizes(Tail(totals))

\* a faulty place: before the entries of equal size (an ascending sort,
\* reversed)
InsertAtBeforeEqual(sorted, x) ==
    Cardinality({i \in 1..Len(sorted) : sorted[i][2] > x[2]})

\* where x goes in a list sorted by size, largest first: after every entry
\* that is not smaller (sorted with reverse=True keeps equal keys in order)
InsertAt(sorted, x) ==
    Cardinality({i \in 1..Len(sorted) : sorted[i][2] >= x[2]})

InsertDesc(sorted, x) ==
    LET k == InsertAt(sorted, x)
    IN  SubSeq(sorted, 1, k) \o <<x>> \o SubSeq(sorted, k + 1, Len(sorted))

RECURSIVE SortDesc(_, _)
\* sorted(items, key=lambda kv: kv[1], reverse=True)
SortDesc(items, acc) ==
    IF items = <<>> THEN acc
    ELSE SortDesc(Tail(items), InsertDesc(acc, Head(items)))

\* [:6]
Cut(seq) == SubSeq(seq, 1, Min(TopN, Len(seq)))

TopLangs(totals) == Cut(SortDesc(totals, <<>>))

LangNames == <<"Python", "Go", "Rust", "C", "Java", "Ruby", "Shell", "HTML", "CSS", "Lua">>

LowerNames == <<"python", "go", "rust", "c", "java", "ruby", "shell", "html", "css", "lua">>

\* language.lower()
Lower(name) == LowerNames[CHOOSE i \in 1..Len(LangNames) : LangNames[i] = name]

\* render_top_langs_svg, lines 145-169: the rows; the placeholder has none
RenderBars(totals) ==
    LET total == SumSizes(totals)
        rows == TopLangs(totals)
    IN  IF total <= 0 \/ rows = <<>> THEN <<>>
        ELSE [i \in 1..Len(rows) |->
                 [label |-> Lower(rows[i][1]),
                  size |-> rows[i][2],
                  width |-> BarWidth(rows[i][2], total)]]

(***************************************************************************)
(* The remote API: what it holds and what it answers.                      *)
(***************************************************************************)
Obj(entries) == [isobj |-> TRUE, entries |-> entries]

Scalar == [isobj |-> FALSE, entries |-> <<>>]

Repo(fork, stars, src) ==
    [obj |-> TRUE, fork |-> fork, stars |-> stars, url |-> src[1], langs |-> src[2]]

\* an element of a page that is not a JSON object
NotAnObject ==
    [obj |-> FALSE, fork |-> Absent, stars |-> Absent, url |-> Absent, langs |-> Scalar]

Url == StrV(1)

GoOnly == <<Url, Obj(<<<<"Go", IntV(4)>>>>)>>

RustGo == <<Url, Obj(<<<<"Rust", IntV(2)>>, <<"Go", IntV(1)>>>>)>>

\* languages_url of a repository, and what a GET of it returns
LangSources ==
    { <<Absent, Scalar>>,
      <<StrV(0), Obj(<<<<"Go", IntV(5)>>>>)>>,
      <<Url, Scalar>>,
      <<Url, Obj(<<>>)>>,
      GoOnly,
      RustGo,
      <<Url, Obj(<<<<"Go", StrV(2)>>, <<"C", IntV(7)>>, <<"Rust", Null>>>>)>>,
      <<Url, Obj(<<<<"Go", BoolV(TRUE)>>>>)>> }

Forks == {Absent, Null, BoolV(FALSE), BoolV(TRUE)}

StarCounts == {Absent, Null, IntV(3)}

Elements ==
    {NotAnObject}
    \cup {Repo(f, s, GoOnly) : f \in Forks, s \in StarCounts}
    \cup {Repo(BoolV(FALSE), IntV(1), src) : src \in LangSources}
    \cup {Repo(BoolV(TRUE), IntV(1), RustGo)}

\* GET /users/{username}: not an object, or an object with its followers
UserPayloads ==
    { [isobj |-> FALSE, followers |-> Absent],
      [isobj |-> TRUE, followers |-> IntV(42)],
      [isobj |-> TRUE, followers |-> Null] }

NoUser == [isobj |-> FALSE, followers |-> Absent]

\* how a request can fail: an HTTP error status, a transport failure
\* (timeout, DNS, connection reset), a body that is not JSON
FailureKinds == {"http", "transport", "badjson"}

\* GET /users/{username}/repos?per_page=..&page=n
PageResponse(n) ==
    SubSeq(remote_repos, (n - 1) * remote_per_page + 1,
           Min(n * remote_per_page, Len(remote_repos)))

NoExc == [kind |-> "none", cause |-> "none", origin |-> "none", at |-> "none"]

\* an api_get that catches every failure and re-raises it as RuntimeError
ApiGetWrapsAll(failure, at) ==
    [kind |-> "RuntimeError",
     cause |-> IF failure = "http" THEN "HTTPError" ELSE "URLError",
     origin |-> failure, at |-> at]

\* api_get, lines 29-34: only HTTPError is caught and re-raised as
\* RuntimeError (from exc); URLError, timeouts and JSON errors pass through
ApiGetRaises(failure, at) ==
    CASE failure = "http" ->
           [kind |-> "RuntimeError", cause |-> "HTTPError", origin |-> failure, at |-> at]
      [] failure = "transport" ->
           [kind |-> "URLError", cause |-> "none", origin |-> failure, at |-> at]
      [] failure = "badjson" ->
           [kind |-> "JSONDecodeError", cause |-> "none", origin |-> failure, at |-> at]

\* raise RuntimeError(f"Unexpected ... response")
ShapeError(at) ==
    [kind |-> "RuntimeError", cause |-> "none", origin |-> "shape", at |-> at]

(***************************************************************************)
(* The run.                                                                *)
(***************************************************************************)
InitWith(repos, per_page) ==
    /\ remote_repos = repos
    /\ remote_per_page = per_page
    /\ pc = "start"
    /\ user = NoUser
    /\ page = 1
    /\ payload = <<>>
    /\ idx = 1
    /\ repo_count = 0
    /\ total_stars = 0
    /\ language_totals = <<>>
    /\ stats_svg = <<>>
    /\ top = <<>>
    /\ langs_svg = <<>>
    /\ files = {}
    /\ exc = NoExc
    /\ exit_code = -1
    /\ in_flight = 0
    /\ n_requests = 0
    /\ page_log = <<>>
    /\ yielded = <<>>
    /\ lang_log = <<>>
    /\ pos = 0

Init ==
    \E n \in 0..MaxRepos :
        \E repos \in [1..n -> Elements] :
            \E per_page \in 1..MaxRepos : InitWith(repos, per_page)

\* a faulty handler: the exception is reported and the status is 0
AbortWithStatusZero(e) ==
    /\ exc' = e
    /\ exit_code' = 0
    /\ pc' = "exited"

\* `except Exception` at the bottom of the script: exit status 1
Abort(e) ==
    /\ exc' = e
    /\ exit_code' = 1
    /\ pc' = "exited"

\* main, line 191: the profile request goes out
SendProfile ==
    /\ pc = "start"
    /\ pc' = "wait_user"
    /\ in_flight' = in_flight + 1
    /\ n_requests' = n_requests + 1
    /\ UNCHANGED <<remote_repos, remote_per_page, user, page, payload, idx,
                   repo_count, total_stars, language_totals, stats_svg, top,
                   langs_svg, files, exc, exit_code, page_log, yielded, lang_log, pos>>

\* main, lines 191-197
RecvProfile ==
    /\ pc = "wait_user"
    /\ \E u \in UserPayloads :
          /\ user' = u
          /\ IF u.isobj
             THEN pc' = "iter" /\ UNCHANGED <<exc, exit_code>>
             ELSE Abort(ShapeError("user"))
    /\ in_flight' = in_flight - 1
    /\ UNCHANGED <<remote_repos, remote_per_page, page, payload, idx,
                   repo_count, total_stars, language_totals, stats_svg, top,
                   langs_svg, files, n_requests, page_log, yielded, lang_log, pos>>

\* any api_get call failing: the exception reaches the bottom of the script
ApiFail ==
    /\ pc \in {"wait_user", "wait_page", "wait_lang"}
    /\ \E f \in FailureKinds : Abort(ApiGetRaises(f, pc))
    /\ in_flight' = in_flight - 1
    /\ UNCHANGED <<remote_repos, remote_per_page, user, page, payload, idx,
                   repo_count, total_stars, language_totals, stats_svg, top,
                   langs_svg, files, n_requests, page_log, yielded, lang_log, pos>>

\* iter_owned_repos, lines 40-44: the request for the current page goes out
SendPage ==
    /\ pc = "iter"
    /\ pc' = "wait_page"
    /\ page_log' = Append(page_log, page)
    /\ in_flight' = in_flight + 1
    /\ n_requests' = n_requests + 1
    /\ UNCHANGED <<remote_repos, remote_per_page, user, page, payload, idx,
                   repo_count, total_stars, language_totals, stats_svg, top,
                   langs_svg, files, exc, exit_code, yielded, lang_log, pos>>

\* a faulty end test: a page shorter than the page size is taken for the end
EndOfPagesWhenShort(p) == Len(p) < remote_per_page

\* iter_owned_repos, line 47: `if not payload`
EndOfPages(p) == p = <<>>

\* a faulty cursor: every second page
NextPageSkipping(p) == p + 2

\* iter_owned_repos, line 52
NextPage(p) == p + 1

\* iter_owned_repos, lines 44-48: an empty page ends the sequence, and with
\* it the loop of main
RecvPage ==
    /\ pc = "wait_page"
    /\ payload' = PageResponse(page)
    /\ idx' = 1
    /\ pc' = IF EndOfPages(PageResponse(page)) THEN "render_stats" ELSE "loop"
    /\ in_flight' = in_flight - 1
    /\ UNCHANGED <<remote_repos, remote_per_page, user, page, repo_count,
                   total_stars, language_totals, stats_svg, top, langs_svg, files,
                   exc, exit_code, n_requests, page_log, yielded, lang_log, pos>>

\* iter_owned_repos, lines 45-46: the response is JSON but not an array
RecvPageNotList ==
    /\ pc = "wait_page"
    /\ Abort(ShapeError("repos"))
    /\ in_flight' = in_flight - 1
    /\ UNCHANGED <<remote_repos, remote_per_page, user, page, payload, idx,
                   repo_count, total_stars, language_totals, stats_svg, top,
                   langs_svg, files, n_requests, page_log, yielded, lang_log, pos>>

\* iter_owned_repos, lines 49-52: on to the next element, or, after the
\* last one, to the next page
Advance ==
    /\ pos' = pos + 1
    /\ IF idx < Len(payload)
       THEN idx' = idx + 1 /\ pc' = "loop" /\ UNCHANGED page
       ELSE idx' = idx /\ pc' = "iter" /\ page' = NextPage(page)

\* a faulty fork test: everything but a literal false is a fork
IsForkUnlessFalse(repo) == repo.fork # BoolV(FALSE)

\* main, line 200
IsFork(repo) == Truthy(repo.fork)

\* main, line 205
WantsLanguages(repo) == IsNonEmptyStr(repo.url)

\* main, lines 199-206, for one element of the page
ProcessRepo ==
    /\ pc = "loop"
    /\ LET repo == payload[idx]
       IN  IF ~repo.obj
           THEN /\ Advance
                /\ UNCHANGED <<repo_count, total_stars, yielded, lang_log,
                               in_flight, n_requests>>
           ELSE /\ yielded' = Append(yielded, pos + 1)
                /\ IF IsFork(repo)
                   THEN /\ Advance
                        /\ UNCHANGED <<repo_count, total_stars, lang_log,
                                       in_flight, n_requests>>
                   ELSE /\ repo_count' = repo_count + 1
                        /\ total_stars' = total_stars + StarsOf(repo)
                        /\ IF WantsLanguages(repo)
                           THEN /\ pc' = "wait_lang"
                                /\ lang_log' = Append(lang_log, pos + 1)
                                /\ in_flight' = in_flight + 1
                                /\ n_requests' = n_requests + 1
                                /\ UNCHANGED <<idx, page, pos>>
                           ELSE /\ Advance
                                /\ UNCHANGED <<lang_log, in_flight, n_requests>>
    /\ UNCHANGED <<remote_repos, remote_per_page, user, payload,
                   language_totals, stats_svg, top, langs_svg, files, exc,
                   exit_code, page_log>>

\* main, lines 206-210
RecvLang ==
    /\ pc = "wait_lang"
    /\ language_totals' = Accumulate(language_totals, payload[idx].langs)
    /\ Advance
    /\ in_flight' = in_flight - 1
    /\ UNCHANGED <<remote_repos, remote_per_page, user, payload, repo_count,
                   total_stars, stats_svg, top, langs_svg, files, exc, exit_code,
                   n_requests, page_log, yielded, lang_log>>

\* render_stats_svg, line 69: int(user.get("followers", 0))
Followers(u) == IF u.followers.t = "absent" THEN 0 ELSE u.followers.v

\* main, line 212: int(None) raises TypeError; the rows keep the numbers
\* shown (the account age and the dates depend on the clock and are left out)
RenderStats ==
    /\ pc = "render_stats"
    /\ IF user.followers.t = "null"
       THEN /\ Abort([kind |-> "TypeError", cause |-> "none",
                      origin |-> "render", at |-> pc])
            /\ UNCHANGED stats_svg
       ELSE /\ stats_svg' = <<[followers |-> Followers(user),
                               public_repos |-> repo_count,
                               total_stars |-> total_stars]>>
            /\ pc' = "render_langs"
            /\ UNCHANGED <<exc, exit_code>>
    /\ UNCHANGED <<remote_repos, remote_per_page, user, page, payload, idx,
                   repo_count, total_stars, language_totals, top, langs_svg, files,
                   in_flight, n_requests, page_log, yielded, lang_log, pos>>

\* main, line 213
RenderLangs ==
    /\ pc = "render_langs"
    /\ top' = TopLangs(language_totals)
    /\ langs_svg' = <<RenderBars(language_totals)>>
    /\ pc' = "mkdir"
    /\ UNCHANGED <<remote_repos, remote_per_page, user, page, payload, idx,
                   repo_count, total_stars, language_totals, stats_svg, files,
                   exc, exit_code, in_flight, n_requests, page_log, yielded,
                   lang_log, pos>>

\* main, lines 215-218
Mkdir ==
    /\ pc = "mkdir"
    /\ pc' = "write_stats"
    /\ UNCHANGED <<remote_repos, remote_per_page, user, page, payload, idx,
                   repo_count, total_stars, language_totals, stats_svg, top,
                   langs_svg, files, exc, exit_code, in_flight, n_requests,
                   page_log, yielded, lang_log, pos>>

\* main, line 219
WriteStats ==
    /\ pc = "write_stats"
    /\ files' = files \cup {"stats"}
    /\ pc' = "write_langs"
    /\ UNCHANGED <<remote_repos, remote_per_page, user, page, payload, idx,
                   repo_count, total_stars, language_totals, stats_svg, top,
                   langs_svg, exc, exit_code, in_flight, n_requests, page_log,
                   yielded, lang_log, pos>>

\* main, lines 220-222, and SystemExit(main())
WriteLangs ==
    /\ pc = "write_langs"
    /\ files' = files \cup {"langs"}
    /\ pc' = "exited"
    /\ exit_code' = 0
    /\ UNCHANGED <<remote_repos, remote_per_page, user, page, payload, idx,
                   repo_count, total_stars, language_totals, stats_svg, top,
                   langs_svg, exc, in_flight, n_requests, page_log, yielded,
                   lang_log, pos>>

\* mkdir or write_text raising OSError
IOFail ==
    /\ pc \in {"mkdir", "write_stats", "write_langs"}
    /\ Abort([kind |-> "OSError", cause |-> "none", origin |-> "io", at |-> pc])
    /\ UNCHANGED <<remote_repos, remote_per_page, user, page, payload, idx,
                   repo_count, total_stars, language_totals, stats_svg, top,
                   langs_svg, files, in_flight, n_requests, page_log, yielded,
                   lang_log, pos>>

Next ==
    \/ SendProfile
    \/ RecvProfile
    \/ ApiFail
    \/ SendPage
    \/ RecvPage
    \/ RecvPageNotList
    \/ ProcessRepo
    \/ RecvLang
    \/ RenderStats
    \/ RenderLangs
    \/ Mkdir
    \/ WriteStats
    \/ WriteLangs
    \/ IOFail

Spec == Init /\ [][Next]_vars

(***************************************************************************)
(* render_top_langs_svg on its own: the run stands where aggregation has   *)
(* left it after one repository whose language response is the mapping.    *)
(***************************************************************************)
SizeVals == {0, 23, 47}

MappingOf(sizes) == [i \in 1..Len(sizes) |-> <<LangNames[i], sizes[i]>>]

ResponseOf(sizes) == Obj([i \in 1..Len(sizes) |-> <<LangNames[i], IntV(sizes[i])>>])

InitTop ==
    \E n \in 0..MaxLangs :
        \E sizes \in [1..n -> SizeVals] :
            /\ remote_repos = <<Repo(BoolV(FALSE), Absent, <<Url, ResponseOf(sizes)>>)>>
            /\ remote_per_page = 1
            /\ pc = "render_langs"
            /\ user = [isobj |-> TRUE, followers |-> IntV(42)]
            /\ page = 2
            /\ payload = <<>>
            /\ idx = 1
            /\ repo_count = 1
            /\ total_stars = 0
            /\ language_totals = MappingOf(sizes)
            /\ stats_svg = <<[followers |-> 42, public_repos |-> 1, total_stars |-> 0]>>
            /\ top = <<>>
            /\ langs_svg = <<>>
            /\ files = {}
            /\ exc = NoExc
            /\ exit_code = -1
            /\ in_flight = 0
            /\ n_requests = 4
            /\ page_log = <<1, 2>>
            /\ yielded = <<1>>
            /\ lang_log = <<1>>
            /\ pos = 1

NextTop ==
    \/ RenderLangs
    \/ Mkdir
    \/ WriteStats
    \/ WriteLangs

SpecTop == InitTop /\ [][NextTop]_vars

(***************************************************************************)
(* A run in which every request succeeds, against a remote that serves     *)
(* pages of 100 and whose repositories are all non-fork, each with a       *)
(* languages_url.                                                          *)
(***************************************************************************)
FullSizes == {0, 1, PerPage - 1, PerPage, PerPage + 1, 2 * PerPage}

FullRepo == Repo(BoolV(FALSE), IntV(3), GoOnly)

InitFull ==
    \E r \in FullSizes : InitWith([i \in 1..r |-> FullRepo], PerPage)

NextFull ==
    \/ SendProfile
    \/ RecvProfile
    \/ SendPage
    \/ RecvPage
    \/ ProcessRepo
    \/ RecvLang
    \/ RenderStats
    \/ RenderLangs
    \/ Mkdir
    \/ WriteStats
    \/ WriteLangs

SpecFull == InitFull /\ [][NextFull]_vars

(***************************************************************************)
(* What the properties speak of.                                           *)
(***************************************************************************)
\* a fork flag that is absent, null or false
FalsyFlag(j) == j = Absent \/ j = Null \/ j = BoolV(FALSE)

\* the elements main has taken from the sequence so far: those it is done
\* with and the one whose language response it waits for, or waited for
\* when the run ended
Consumed == IF pc = "wait_lang" \/ exc.at = "wait_lang" THEN pos + 1 ELSE pos

\* the repositories among the first n elements that are not forks
NonForks(n) ==
    {i \in 1..n : remote_repos[i].obj /\ FalsyFlag(remote_repos[i].fork)}

\* stargazers_count, an absent or null one counting as 0
StarValue(j) == IF j = Absent \/ j = Null THEN 0 ELSE j.v

RECURSIVE StarSum(_)
StarSum(n) ==
    IF n = 0 THEN 0
    ELSE StarSum(n - 1)
         + (IF n \in NonForks(n) THEN StarValue(remote_repos[n].stars) ELSE 0)

\* the loop of main has consumed the whole sequence
AggregationDone ==
    pc \in {"render_stats", "render_langs", "mkdir", "write_stats", "write_langs"}
    \/ (pc = "exited" /\ exc.origin \in {"none", "render", "io"})

\* C1: at every point of the aggregation repo_count is the number of
\* repositories taken so far whose fork flag is absent, null or false, so a
\* repository with a truthy flag never changes it, and once the whole
\* sequence is consumed it is their number over all pages.
C1_RepoCount ==
    /\ repo_count = Cardinality(NonForks(Consumed))
    /\ AggregationDone => repo_count = Cardinality(NonForks(Len(remote_repos)))

C1_Witness ==
    /\ pc = "render_stats"
    /\ repo_count = 1
    /\ \E i \in 1..Len(remote_repos) :
          remote_repos[i].obj /\ remote_repos[i].fork = BoolV(TRUE)
    /\ \E i \in 1..Len(remote_repos) :
          remote_repos[i].obj /\ remote_repos[i].fork = Null

\* C2: at every point of the aggregation total_stars is the sum of
\* stargazers_count over the non-fork repositories taken so far, an absent
\* or null count being 0, so the stars of a fork are never added, and once
\* the whole sequence is consumed it is the sum over all pages.
C2_TotalStars ==
    /\ total_stars = StarSum(Consumed)
    /\ AggregationDone => total_stars = StarSum(Len(remote_repos))

C2_Witness ==
    /\ pc = "render_stats"
    /\ total_stars = 3
    /\ \E i \in 1..Len(remote_repos) :
          /\ remote_repos[i].obj
          /\ remote_repos[i].fork = BoolV(TRUE)
          /\ remote_repos[i].stars.t = "int"
    /\ \E i \in 1..Len(remote_repos) :
          /\ remote_repos[i].obj
          /\ FalsyFlag(remote_repos[i].fork)
          /\ remote_repos[i].stars = IntV(3)

\* the byte counts a language response reports for a language: its entries
\* for that name whose value is a JSON integer
RECURSIVE ReportedBytes(_, _)
ReportedBytes(entries, name) ==
    IF entries = <<>> THEN 0
    ELSE (IF Head(entries)[1] = name /\ Head(entries)[2].t = "int"
          THEN Head(entries)[2].v ELSE 0)
         + ReportedBytes(Tail(entries), name)

\* the repositories whose language response main has handled
RECURSIVE ReportedSoFar(_, _)
ReportedSoFar(n, name) ==
    IF n = 0 THEN 0
    ELSE ReportedSoFar(n - 1, name)
         + (IF n \in NonForks(n) /\ n \in {lang_log[k] : k \in 1..Len(lang_log)}
               /\ remote_repos[n].langs.isobj
            THEN ReportedBytes(remote_repos[n].langs.entries, name)
            ELSE 0)

\* C3: in every state of the aggregation language_totals[L] is the sum of
\* the integer byte counts reported for L by the language responses of the
\* non-fork repositories handled so far; no language request goes out for
\* a repository whose fork flag is truthy.
C3_LanguageTotals ==
    /\ \A k \in 1..Len(LangNames) :
          Lookup(language_totals, LangNames[k]) = ReportedSoFar(pos, LangNames[k])
    /\ \A k \in 1..Len(lang_log) : FalsyFlag(remote_repos[lang_log[k]].fork)

\* the object elements among the first n, in order
RECURSIVE ObjectsUpTo(_)
ObjectsUpTo(n) ==
    IF n = 0 THEN <<>>
    ELSE IF remote_repos[n].obj THEN Append(ObjectsUpTo(n - 1), n)
         ELSE ObjectsUpTo(n - 1)

\* C4: the pages requested are 1, 2, 3, ... in this order, none skipped or
\* requested twice; no page is requested after one that came back empty;
\* the elements yielded are the object elements of the pages, in page
\* order; and the sequence ends right after the first empty page, with
\* every object element of the pages before it yielded.
C4_Pagination ==
    /\ page_log = [i \in 1..Len(page_log) |-> i]
    /\ \A i \in 1..(Len(page_log) - 1) : PageResponse(page_log[i]) # <<>>
    /\ yielded = ObjectsUpTo(Consumed)
    /\ AggregationDone =>
          /\ page_log # <<>>
          /\ PageResponse(page_log[Len(page_log)]) = <<>>
          /\ yielded = ObjectsUpTo(Len(remote_repos))

C4_Witness ==
    /\ pc = "render_stats"
    /\ page_log = <<1, 2, 3>>
    /\ Len(yielded) = 1
    /\ Len(remote_repos) = 2

\* the language requests a complete aggregation makes
LanguageRequestsDue ==
    {i \in NonForks(Len(remote_repos)) : IsNonEmptyStr(remote_repos[i].url)}

\* C5: a run in which a request has failed has ended with status 1 and has
\* written no file; and a file is written only after the profile request,
\* every page request and every language request have succeeded and both
\* documents are rendered.
C5_AllOrNothing ==
    /\ exc.origin \in FailureKinds =>
          pc = "exited" /\ exit_code = 1 /\ files = {}
    /\ files # {} =>
          /\ exc.origin \notin FailureKinds
          /\ in_flight = 0
          /\ user.isobj
          /\ page_log # <<>>
          /\ PageResponse(page_log[Len(page_log)]) = <<>>
          /\ {lang_log[k] : k \in 1..Len(lang_log)} = LanguageRequestsDue
          /\ pos = Len(remote_repos)
          /\ stats_svg # <<>>
          /\ langs_svg # <<>>

C5_Witness ==
    /\ pc = "exited"
    /\ exc.origin = "transport"
    /\ exc.at = "wait_lang"
    /\ Len(lang_log) = 2
    /\ files = {}

WithEmptyObjects ==
    [i \in 1..Len(remote_repos) |->
        IF remote_repos[i].langs.isobj THEN remote_repos[i]
        ELSE [remote_repos[i] EXCEPT !.langs = Obj(<<>>)]]

ExpectedCount(repos) ==
    Cardinality({i \in 1..Len(repos) : repos[i].obj /\ FalsyFlag(repos[i].fork)})

RECURSIVE ExpectedStars(_)
ExpectedStars(repos) ==
    IF repos = <<>> THEN 0
    ELSE (IF Head(repos).obj /\ FalsyFlag(Head(repos).fork)
          THEN StarValue(Head(repos).stars) ELSE 0)
         + ExpectedStars(Tail(repos))

\* a language request is answered, successfully, with a value that is not
\* an object
NonObjectAnswer ==
    /\ pc = "wait_lang"
    /\ ~payload[idx].langs.isobj
    /\ pc' # "wait_lang"
    /\ exc' = NoExc

\* C7: a language response that is not an object leaves language_totals,
\* repo_count and total_stars as they are and the aggregation goes on with
\* the next repository; the final repo_count and total_stars are those of
\* the same remote with an empty object in its place.
C7_NonObjectSkipped ==
    /\ [][NonObjectAnswer =>
            /\ language_totals' = language_totals
            /\ repo_count' = repo_count
            /\ total_stars' = total_stars
            /\ pos' = pos + 1
            /\ pc' \in {"loop", "iter"}]_vars
    /\ [](AggregationDone =>
            /\ repo_count = ExpectedCount(WithEmptyObjects)
            /\ total_stars = ExpectedStars(WithEmptyObjects))

C7_Witness ==
    /\ pc = "render_stats"
    /\ Len(lang_log) = 2
    /\ remote_repos[lang_log[1]].langs.isobj
    /\ ~remote_repos[lang_log[2]].langs.isobj
    /\ language_totals # <<>>
    /\ repo_count = 2

\* where a selected row stands in the mapping's iteration order
SourceIndex(row) == KeyIndex(language_totals, row[1])

\* the places of the mapping that no selected row comes from
Omitted ==
    {k \in 1..Len(language_totals) :
        \A i \in 1..Len(top) : SourceIndex(top[i]) # k}

\* C8: the rows selected are min(6, number of languages) entries of the
\* mapping, in non-increasing order of byte count; no selected language
\* has fewer bytes than an omitted one; languages with equal byte counts
\* stand in the mapping's iteration order, among the rows and against the
\* omitted ones.
C8_TopSelection ==
    langs_svg # <<>> =>
        /\ Len(top) = Min(6, Len(language_totals))
        /\ \A i \in 1..Len(top) :
              HasKey(language_totals, top[i][1])
              /\ language_totals[SourceIndex(top[i])] = top[i]
        /\ \A i, j \in 1..Len(top) :
              i < j => /\ top[i][2] >= top[j][2]
                       /\ SourceIndex(top[i]) # SourceIndex(top[j])
                       /\ top[i][2] = top[j][2] =>
                             SourceIndex(top[i]) < SourceIndex(top[j])
        /\ \A k \in Omitted : \A i \in 1..Len(top) :
              /\ top[i][2] >= language_totals[k][2]
              /\ top[i][2] = language_totals[k][2] => SourceIndex(top[i]) < k

C8_Witness ==
    /\ langs_svg # <<>>
    /\ Len(language_totals) = 7
    /\ Len(top) = 6
    /\ top[1][2] = top[2][2]
    /\ top[5][2] > top[6][2]
    /\ \E k \in Omitted : language_totals[k][2] = top[6][2]
    /\ language_totals[1][2] < language_totals[2][2]

\* C9: with a total above 0, every row rendered has the width
\* max(2, floor(280 * bytes / total)), which is at least 2 and at most 280.
C9_BarWidth ==
    (langs_svg # <<>> /\ SumSizes(language_totals) > 0) =>
        \A i \in 1..Len(langs_svg[1]) :
            LET row == langs_svg[1][i]
                exact == (280 * row.size) \div SumSizes(language_totals)
            IN  /\ row.width = (IF exact > 2 THEN exact ELSE 2)
                /\ row.width >= 2
                /\ row.width <= 280

\* ceil(n / d)
CeilDiv(n, d) == (n + d - 1) \div d

\* the run has ended with status 0
Succeeded == pc = "exited" /\ exit_code = 0

\* C10 as stated: the requests go out one at a time and a successful run
\* over R repositories has made 1 + ceil(R/100) + R of them.
C10_RequestCountStated ==
    /\ in_flight <= 1
    /\ Succeeded =>
          n_requests = 1 + CeilDiv(Len(remote_repos), 100) + Len(remote_repos)

\* C10 as the code has it: the requests go out one at a time, and a
\* successful run over R repositories has made 1 + (ceil(R/100) + 1) + R of
\* them: the page after the last non-empty one is requested too.
C10_RequestCount ==
    /\ in_flight <= 1
    /\ in_flight = 1 <=> pc \in {"wait_user", "wait_page", "wait_lang"}
    /\ Succeeded =>
          /\ n_requests = 1 + (CeilDiv(Len(remote_repos), 100) + 1) + Len(remote_repos)
          /\ Len(page_log) = CeilDiv(Len(remote_repos), 100) + 1
          /\ Len(lang_log) = Len(remote_repos)

C10_Witness ==
    /\ Succeeded
    /\ Len(remote_repos) = 101
    /\ n_requests = 105

====
